---- MODULE Spec2Model ----
(***************************************************************************)
(* Box_sync.py: the reconciliation engine sync_and_verify, its backup      *)
(* rotation and its report, as a state machine.                            *)
(*                                                                         *)
(* The two directory trees and the working directory (report + backups)    *)
(* are the disk; one run of sync_and_verify is the sequence of steps       *)
(*   Begin -> Backup -> Load -> Iterate* -> Save -> Audit                  *)
(* and the outside world changes files between runs. The window starts a   *)
(* run in a worker thread for each click on its run button.                *)
(***************************************************************************)
EXTENDS Integers, Sequences, FiniteSets, TLC

\* ------------------------------------------------------------------ bounds
MaxRuns == 2            \* runs of sync_and_verify explored by Spec
MaxOutside == 1         \* events from outside a run: a file changed, the checkbox
                        \* toggled, a run started in the second of the previous one
MaxFaults == 1          \* injected I/O failures (copy, hash, delete) per behaviour
MaxRotationRuns == 9    \* runs explored by SpecRotation (more than keep_last + 1)
MaxClicks == 3          \* clicks on the run button explored by SpecGui

\* --------------------------------------------------------------- the disk
RelPaths == {"a", "b", "c"}

NoFile == [exists |-> FALSE, size |-> 0, data |-> 0]
EmptyFile == [exists |-> TRUE, size |-> 0, data |-> 0]
FileS == [exists |-> TRUE, size |-> 1, data |-> 1]
FileT == [exists |-> TRUE, size |-> 1, data |-> 2]
Contents == {EmptyFile, FileS, FileT}

join_flat(folder, relative_path) == <<folder, "a">>

\* os.path.join(folder, relative_path)
join(folder, relative_path) == <<folder, relative_path>>

ReadFile(d, path) == d[path[1]][path[2]]
WriteFile(d, path, file) == [d EXCEPT ![path[1]][path[2]] = file]

\* ------------------------------------------------------- pandas / openpyxl
NaT == [kind |-> "NaT", t |-> 0]
NaN == [kind |-> "NaN", t |-> 0]
Blank == [kind |-> "blank", t |-> 0]
DateStr(now) == [kind |-> "str", t |-> now]

isna(v) == v.kind \in {"NaT", "NaN"}

ToCell_drops_value(v) == Blank

\* df.to_excel: a missing value is written as an empty cell
ToCell(v) == IF isna(v) THEN Blank ELSE v
\* pd.read_excel: an empty cell is read as NaN
FromCell(c) == IF c.kind = "blank" THEN NaN ELSE c

to_excel_rows(frame) ==
    [i \in 1..Len(frame) |-> [frame[i] EXCEPT !.date_copied = ToCell(@)]]

read_excel_rows_reversed(rows) ==
    [i \in 1..Len(rows) |-> [rows[Len(rows) + 1 - i] EXCEPT !.date_copied = FromCell(@)]]

\* pd.read_excel: the rows of the first sheet, in the sheet's order
read_excel_rows(rows) ==
    [i \in 1..Len(rows) |-> [rows[i] EXCEPT !.date_copied = FromCell(@)]]

NoReport == [exists |-> FALSE, main |-> <<>>, fills |-> <<>>, audits |-> <<>>, mtime |-> 0]

\* ------------------------------------------------------------ I/O outcomes
CopyFaults == {"copy_clean", "copy_trunc", "copy_stat"}
HashFaults == {"hash_src", "hash_dst"}
IO == {"none"} \cup CopyFaults \cup HashFaults

\* ---------------------------------------------------------------- helpers
compute_checksum(d, file_path, fails) ==
    IF fails
    THEN [err |-> TRUE, path |-> file_path, size |-> 0, data |-> 0]
    ELSE [err |-> FALSE, path |-> <<"", "">>,
          size |-> ReadFile(d, file_path).size,
          data |-> ReadFile(d, file_path).data]

None == [none |-> TRUE, n |-> 0]

get_file_size(d, file_path) ==
    IF ReadFile(d, file_path).exists
    THEN [none |-> FALSE, n |-> ReadFile(d, file_path).size]
    ELSE None

file_exists_always(d, path) == TRUE

file_exists(d, path) == ReadFile(d, path).exists

\* os.makedirs + shutil.copy2(source_path, dest_path): the disk afterwards.
\*   none       the destination holds the source's content
\*   copy_clean it raised before the destination was opened for writing
\*   copy_trunc it raised after the destination was opened (truncated), before data
\*   copy_stat  the content was written, copying the metadata raised
copy2(d, source_path, dest_path, io) ==
    CASE io = "copy_clean" -> d
      [] io = "copy_trunc" -> WriteFile(d, dest_path, EmptyFile)
      [] OTHER -> WriteFile(d, dest_path, ReadFile(d, source_path))

CopyError(io) ==
    CASE io = "copy_clean" -> "Error copying: Permission denied"
      [] io = "copy_trunc" -> "Error copying: No space left on device"
      [] OTHER -> "Error copying: Operation not permitted"


\* ---------------------------------------------------------------- the state
VARIABLES
    paths,              \* the relative paths this world has files at
    disk,               \* [folder1 |-> tree, folder2 |-> tree]: the two directory trees
    report,             \* the workbook at report_path
    backups,            \* the <report>_backup_<timestamp>.xlsx files beside it
    clock,              \* datetime.now(), in seconds
    saves,              \* writes of the report so far: its modification time
    force_recopy_var,   \* the "Force re-copy" checkbox
    pc,                 \* where sync_and_verify stands
    timestamp,
    force_recopy,
    df,
    index,
    total_files,
    copied_files,
    verified_files,
    mismatched_files,
    missing_files,
    error_log_entries,
    audit_records,
    run_button,         \* state of the "Run Sync & Verify" button
    folder1_var,
    folder2_var,
    progress_bar,       \* [maximum, value]
    workers,            \* the threads run_sync_thread has started: where each stands
    budget,             \* what is left of the bounds: [runs, outside, faults, clicks]
    last,               \* observation of the latest loop iteration
    run,                \* observation of the run in progress
    history,            \* what the latest two completed runs returned
    written             \* every audit section a run has written, oldest first

vars == <<paths, disk, report, backups, clock, saves, force_recopy_var, pc, timestamp, force_recopy, df,
          index, total_files, copied_files, verified_files, mismatched_files,
          missing_files, error_log_entries, audit_records, run_button, folder1_var,
          folder2_var, progress_bar, workers, budget, last, run, history, written>>

\* the window, apart from the checkbox and the progress bar
gui == <<run_button, folder1_var, folder2_var, workers>>

locals == <<timestamp, force_recopy, df, index, total_files, copied_files,
            verified_files, mismatched_files, missing_files, error_log_entries,
            audit_records>>

keep_last == 7

\* ------------------------------------------------------------ backup rotation
RECURSIVE SortByMtimeDesc(_)
\* sorted(..., key=os.path.getmtime, reverse=True)
SortByMtimeDesc(S) ==
    IF S = {} THEN <<>>
    ELSE LET newest == CHOOSE b \in S : \A o \in S : o.mtime <= b.mtime
         IN <<newest>> \o SortByMtimeDesc(S \ {newest})

Range(q) == {q[i] : i \in 1..Len(q)}

OldBackups_off_by_one(all) ==
    LET sorted == SortByMtimeDesc(all)
    IN Range(SubSeq(sorted, keep_last + 2, Len(sorted)))

\* backups[keep_last:]
OldBackups(all) ==
    LET sorted == SortByMtimeDesc(all)
    IN Range(SubSeq(sorted, keep_last + 1, Len(sorted)))

\* cleanup_old_backups: every backup beyond the newest keep_last is removed, except
\* those whose os.remove raised (undeleted)
cleanup_old_backups(all, undeleted) == (all \ OldBackups(all)) \cup undeleted

CopyReport_main_only(all, rep, stamp) ==
    {b \in all : b.name # stamp}
        \cup {[name |-> stamp, mtime |-> rep.mtime, main |-> rep.main,
               fills |-> rep.fills, audits |-> <<>>]}

\* shutil.copy2(report_path, backup_path): content and modification time of the
\* report, under the name built from the run's timestamp; a file of that name is
\* overwritten
CopyReport(all, rep, stamp) ==
    {b \in all : b.name # stamp}
        \cup {[name |-> stamp, mtime |-> rep.mtime, main |-> rep.main,
               fills |-> rep.fills, audits |-> rep.audits]}

\* ------------------------------------------------------- one loop iteration
date_kept(date_copied, exists1, exists2, force) == date_copied

date_after_force_any(date_copied, exists1, exists2, force) ==
    IF exists2 /\ force THEN NaT ELSE date_copied

\* lines 102-103: with force_recopy, a record whose destination is missing is
\* treated as not yet copied
date_after_force(date_copied, exists1, exists2, force) ==
    IF exists2 /\ ~exists1 /\ force THEN NaT ELSE date_copied

destination_assumed(d, dest_path) == TRUE

\* line 119: the comparison is made only if the destination exists now
destination_present(d, dest_path) == file_exists(d, dest_path)

hash_always(source_size, dest_size) == TRUE

\* lines 123-126: the checksums are computed in the else of the size test
hash_needed(source_size, dest_size) == ~(source_size # dest_size)

is_verified_if_hashed(hashed, hashes_differ) == hashed

\* lines 129-133: verified is counted in the else of the checksum test
is_verified(hashed, hashes_differ) == hashed /\ ~hashes_differ

\* lines 119-135: the size and checksum comparison of a record whose external file
\* exists; status is the status the copy step left
verify(d, source_path, dest_path, io, status) ==
    LET compare == destination_present(d, dest_path)
        source_size == get_file_size(d, source_path)
        dest_size == get_file_size(d, dest_path)
        sizes_differ == compare /\ source_size # dest_size
        hashed == compare /\ hash_needed(source_size, dest_size)
        source_hash == compute_checksum(d, source_path, io = "hash_src")
        dest_hash == compute_checksum(d, dest_path, io = "hash_dst")
        hashes_differ == hashed /\ source_hash # dest_hash
        verified == is_verified(hashed, hashes_differ)
    IN [status |-> IF sizes_differ THEN "Size Mismatch"
                   ELSE IF hashes_differ THEN "Checksum Mismatch"
                   ELSE IF verified /\ status # "Copied" THEN "Verified"
                   ELSE status,
        verified |-> IF verified THEN 1 ELSE 0,
        mismatched |-> IF sizes_differ \/ hashes_differ THEN 1 ELSE 0,
        size_calls |-> IF compare THEN 2 ELSE 0,
        hash_calls |-> IF hashed THEN 2 ELSE 0]

NotVerified(status) ==
    [status |-> status, verified |-> 0, mismatched |-> 0, size_calls |-> 0,
     hash_calls |-> 0]

\* lines 86-145: the body of the loop for one row of the inventory
sync_iteration(row, d, force, io, now) ==
    LET relative_path == row.relative_path
        source_path == row.source_path
        dest_path == join("folder1", relative_path)
        exists1 == file_exists(d, dest_path)
        exists2 == file_exists(d, source_path)
        entry(text) == [at |-> now, text |-> text, path |-> relative_path]
        \* lines 98-103
        missing2 == ~exists2
        date1 == date_after_force(row.date_copied, exists1, exists2, force)
        \* lines 105-117
        attempt == exists2 /\ isna(date1)
        copied == attempt /\ io \notin CopyFaults
        d2 == IF attempt THEN copy2(d, source_path, dest_path, io) ELSE d
        date2 == IF copied THEN DateStr(now) ELSE date1
        status2 == IF ~attempt THEN "Already Copied"
                   ELSE IF copied THEN "Copied"
                   ELSE CopyError(io)
        \* lines 119-135
        v == IF exists2 THEN verify(d2, source_path, dest_path, io, status2)
             ELSE NotVerified("Missing in Folder 2")
        \* lines 136-139: the else of "if exists2" at line 105
        missing1 == ~exists2
        status == IF missing1 THEN "Missing in Folder 1" ELSE v.status
    IN [row |-> [row EXCEPT !.exists1 = exists1, !.exists2 = exists2,
                            !.date_copied = date2],
        disk |-> d2,
        status |-> status,
        copied |-> IF copied THEN 1 ELSE 0,
        verified |-> v.verified,
        mismatched |-> v.mismatched,
        missing |-> (IF missing2 THEN 1 ELSE 0) + (IF missing1 THEN 1 ELSE 0),
        log |-> (IF missing2 THEN <<entry("Missing in Folder 2")>> ELSE <<>>)
                \o (IF attempt /\ ~copied THEN <<entry(status2)>> ELSE <<>>)
                \o (IF missing1 THEN <<entry("Missing in Folder 1")>> ELSE <<>>),
        \* what the iteration did
        exists1 |-> exists1,
        exists2 |-> exists2,
        copy |-> IF ~attempt THEN "none" ELSE IF copied THEN "ok" ELSE "failed",
        date_at_copy |-> date1,
        size_calls |-> v.size_calls,
        hash_calls |-> v.hash_calls,
        fault |-> \/ io \in CopyFaults /\ attempt
                  \/ io \in HashFaults /\ v.hash_calls > 0,
        hash_failed |-> io \in HashFaults /\ v.hash_calls > 0,
        dest_path |-> dest_path]

\* ---------------------------------------------------------------- bootstrap
\* os.walk(folder2): the files of the external tree, in the order the directory
\* listing yields them
WalkOrders(tree) ==
    LET files == {p \in RelPaths : tree[p].exists}
    IN {q \in [1..Cardinality(files) -> files] :
            \A i, j \in 1..Cardinality(files) : i # j => q[i] # q[j]}

file_records(order) ==
    [i \in 1..Len(order) |->
        [relative_path |-> order[i],
         source_path |-> join("folder2", order[i]),
         date_copied |-> NaT,
         exists1 |-> FALSE,
         exists2 |-> TRUE]]


\* ------------------------------------------------------------------ initial
EmptyTree == [p \in RelPaths |-> NoFile]

NoIteration ==
    [valid |-> FALSE, n |-> 0, before |-> file_records(<<"a">>)[1],
     dest_before |-> NoFile, source_before |-> NoFile, force |-> FALSE,
     disk_before |-> [folder1 |-> [p \in RelPaths |-> NoFile],
                      folder2 |-> [p \in RelPaths |-> NoFile]],
     out |-> sync_iteration(file_records(<<"a">>)[1],
                            [folder1 |-> [p \in RelPaths |-> NoFile],
                             folder2 |-> [p \in RelPaths |-> NoFile]],
                            FALSE, "none", 0)]

InitLocals ==
    /\ timestamp = 0
    /\ force_recopy = FALSE
    /\ df = <<>>
    /\ index = 0
    /\ total_files = 0
    /\ copied_files = 0
    /\ verified_files = 0
    /\ mismatched_files = 0
    /\ missing_files = 0
    /\ error_log_entries = <<>>
    /\ audit_records = <<>>

InitObservations ==
    /\ last = NoIteration
    /\ run = [n |-> 0, faults |-> 0, outside |-> FALSE, found_report |-> FALSE,
              old_backups |-> 0, undeleted |-> 0, bootstrapped |-> <<>>,
              scenario |-> <<>>, progress |-> <<>>, report_before |-> NoReport,
              backups_before |-> {}, failures |-> 0, appended |-> FALSE,
              disk_before |-> [folder1 |-> EmptyTree, folder2 |-> EmptyTree]]
    /\ history = <<>>
    /\ written = <<>>

\* The trees in which each path of world holds the file FileS or none.
Trees(world) ==
    {tree \in [RelPaths -> {NoFile, FileS}] : \A p \in RelPaths \ world : tree[p] = NoFile}

\* The program has just been started in a working directory that holds no report and
\* no backup; the internal tree is empty.
Start(world, folder2, runs) ==
    /\ paths = world
    /\ disk = [folder1 |-> EmptyTree, folder2 |-> folder2]
    /\ report = NoReport
    /\ backups = {}
    /\ clock = 0
    /\ saves = 0
    /\ pc = "idle"
    /\ budget = [runs |-> runs, outside |-> MaxOutside, faults |-> MaxFaults,
                 clicks |-> MaxClicks]
    /\ run_button = "normal"
    /\ folder1_var = "folder1"
    /\ folder2_var = "folder2"
    /\ progress_bar = [maximum |-> 100, value |-> 0]
    /\ workers = <<>>
    /\ InitLocals
    /\ InitObservations

\* Two paths, the external tree holding any of them, the checkbox either way.
Init ==
    /\ \E folder2 \in Trees({"a", "b"}) : Start({"a", "b"}, folder2, MaxRuns)
    /\ force_recopy_var \in BOOLEAN

\* ---------------------------------------------------------- the outside world
\* A file of either tree is created, overwritten or deleted while no run is going on.
Outside ==
    /\ pc = "idle"
    /\ budget.outside > 0
    /\ budget.runs > 0
    /\ \E folder \in {"folder1", "folder2"}, p \in paths, file \in Contents \cup {NoFile} :
        /\ file # disk[folder][p]
        /\ disk' = WriteFile(disk, join(folder, p), file)
    /\ budget' = [budget EXCEPT !.outside = @ - 1]
    /\ run' = [run EXCEPT !.outside = TRUE]
    /\ UNCHANGED <<paths, report, backups, clock, saves, force_recopy_var, pc, locals, last,
                   history, written, progress_bar, gui>>

\* The user ticks or unticks "Force re-copy files missing in Folder 1".
ToggleForce ==
    /\ pc = "idle"
    /\ budget.outside > 0
    /\ budget.runs > 0
    /\ force_recopy_var' = ~force_recopy_var
    /\ budget' = [budget EXCEPT !.outside = @ - 1]
    /\ UNCHANGED <<paths, disk, report, backups, clock, saves, pc, locals, last, run, history,
                   written, progress_bar, gui>>

\* ------------------------------------------------------------ sync_and_verify
\* lines 56-58 (and 189: the flag is the checkbox's). A run starts in a later second
\* than the previous one (dt = 1) or, as an outside event, in the same second (dt = 0).
Begin ==
    /\ pc = "idle"
    /\ budget.runs > 0
    /\ \E dt \in {0, 1} :
        /\ dt = 0 => run.n > 0 /\ budget.outside > 0
        /\ clock' = clock + dt
        /\ timestamp' = clock + dt
        /\ budget' = [budget EXCEPT !.runs = @ - 1, !.outside = @ - (1 - dt)]
    /\ force_recopy' = force_recopy_var
    /\ error_log_entries' = <<>>
    /\ audit_records' = <<>>
    /\ run' = [run EXCEPT !.n = @ + 1, !.faults = 0, !.found_report = report.exists,
                          !.old_backups = 0, !.progress = <<>>,
                          !.report_before = report, !.backups_before = backups,
                          !.failures = 0, !.disk_before = disk, !.appended = FALSE]
    /\ pc' = "backup"
    /\ UNCHANGED <<paths, disk, report, backups, saves, force_recopy_var, df, index,
                   total_files, copied_files, verified_files, mismatched_files,
                   missing_files, last, history, written, progress_bar>>

\* line 60: backup_excel(report_path)
backup_excel ==
    /\ pc = "backup"
    /\ IF report.exists
       THEN LET copied == CopyReport(backups, report, timestamp)
                old == OldBackups(copied)
            IN \E undeleted \in SUBSET old :
                /\ Cardinality(undeleted) <= budget.faults
                /\ backups' = cleanup_old_backups(copied, undeleted)
                /\ budget' = [budget EXCEPT !.faults = @ - Cardinality(undeleted)]
                /\ run' = [run EXCEPT !.faults = @ + Cardinality(undeleted),
                                      !.old_backups = Cardinality(old),
                                      !.undeleted = @ + Cardinality(undeleted)]
       ELSE UNCHANGED <<backups, budget, run>>
    /\ pc' = "load"
    /\ UNCHANGED <<paths, disk, report, clock, saves, force_recopy_var, locals, last, history,
                   written, progress_bar, gui>>

\* The rows <<i, j, k>> of a three-row inventory that hold (i) a file copied earlier
\* and identical on both sides, (j) a file of the external tree alone, never copied,
\* (k) a file of the internal tree alone; <<>> if the inventory is not of that kind.
ScenarioOf(frame, d) ==
    LET src(i) == ReadFile(d, frame[i].source_path)
        dst(i) == ReadFile(d, join("folder1", frame[i].relative_path))
        A(i) == ~isna(frame[i].date_copied) /\ src(i).exists /\ dst(i) = src(i)
        B(j) == isna(frame[j].date_copied) /\ src(j).exists /\ ~dst(j).exists
        C(k) == ~src(k).exists /\ dst(k).exists
        triples == {t \in [1..3 -> 1..3] : A(t[1]) /\ B(t[2]) /\ C(t[3])}
    IN IF Len(frame) = 3 /\ triples # {} THEN CHOOSE t \in triples : TRUE ELSE <<>>

RelativePaths(frame) == [i \in 1..Len(frame) |-> frame[i].relative_path]

\* lines 62-83: the inventory is read from the report, or built from the external tree
Load ==
    /\ pc = "load"
    /\ IF report.exists
       THEN df' = read_excel_rows(report.main)
       ELSE \E order \in WalkOrders(disk.folder2) : df' = file_records(order)
    /\ run' = [run EXCEPT !.scenario = ScenarioOf(df', disk),
                          !.bootstrapped = IF report.exists THEN @
                                           ELSE RelativePaths(df')]
    /\ total_files' = Len(df')
    /\ copied_files' = 0
    /\ verified_files' = 0
    /\ mismatched_files' = 0
    /\ missing_files' = 0
    /\ index' = 1
    /\ pc' = "loop"
    /\ UNCHANGED <<paths, disk, report, backups, clock, saves, force_recopy_var, timestamp,
                   force_recopy,
                   error_log_entries, audit_records, budget, last, history, written,
                   progress_bar, gui>>

audit_record_now(stamp, relative_path, status) ==
    [Timestamp |-> stamp + 1, RelativePath |-> relative_path, Status |-> status]

\* lines 141-145
audit_record(stamp, relative_path, status) ==
    [Timestamp |-> stamp, RelativePath |-> relative_path, Status |-> status]

\* The per-file failures of an iteration: the external file missing, the copy
\* failing, a checksum that could not be read.
Failures(out) ==
    (IF ~out.exists2 THEN 1 ELSE 0) + (IF out.copy = "failed" THEN 1 ELSE 0)
        + (IF out.hash_failed THEN 1 ELSE 0)

update_progress_total_first(current, total) == [maximum |-> current, value |-> total]

\* lines 179-181: the progress callback the window passes to sync_and_verify
update_progress(current, total) == [maximum |-> total, value |-> current]

\* lines 85-147: one iteration of the loop over the inventory; line 147 calls
\* progress_callback(index + 1, total_files), index counting from 0 there, from 1 here
Iterate ==
    /\ pc = "loop"
    /\ index <= Len(df)
    /\ \E io \in IO :
        LET out == sync_iteration(df[index], disk, force_recopy, io, clock)
            cost == IF out.fault THEN 1 ELSE 0
        IN /\ io = "none" \/ out.fault
           /\ cost <= budget.faults
           /\ df' = [df EXCEPT ![index] = out.row]
           /\ disk' = out.disk
           /\ copied_files' = copied_files + out.copied
           /\ verified_files' = verified_files + out.verified
           /\ mismatched_files' = mismatched_files + out.mismatched
           /\ missing_files' = missing_files + out.missing
           /\ error_log_entries' = error_log_entries \o out.log
           /\ audit_records' = Append(audit_records,
                                      audit_record(timestamp, df[index].relative_path,
                                                   out.status))
           /\ budget' = [budget EXCEPT !.faults = @ - cost]
           /\ run' = [run EXCEPT !.faults = @ + cost,
                                 !.progress = Append(@, update_progress(index, total_files)),
                                 !.failures = @ + Failures(out)]
           /\ last' = [valid |-> TRUE, n |-> run.n, before |-> df[index],
                       dest_before |-> ReadFile(disk, join("folder1", df[index].relative_path)),
                       source_before |-> ReadFile(disk, df[index].source_path),
                       force |-> force_recopy, disk_before |-> disk, out |-> out]
    /\ progress_bar' = update_progress(index, total_files)
    /\ index' = index + 1
    /\ UNCHANGED <<paths, report, backups, clock, saves, force_recopy_var, pc, timestamp,
                   force_recopy,
                   total_files, history, written, gui>>

\* line 149: df.to_excel(report_path) writes a new workbook holding the inventory alone
Save ==
    /\ pc = "loop"
    /\ index > Len(df)
    /\ report' = [exists |-> TRUE, main |-> to_excel_rows(df),
                  fills |-> [i \in 1..Len(df) |-> FALSE], audits |-> <<>>,
                  mtime |-> saves + 1]
    /\ saves' = saves + 1
    /\ pc' = "audit"
    /\ UNCHANGED <<paths, disk, backups, clock, force_recopy_var, locals, budget, last, run,
                   history, written, progress_bar, gui>>

AuditSheet(stamp, records) == [name |-> stamp, rows |-> records]

\* line 149: the columns df.to_excel writes to the first sheet
main_columns ==
    <<"Relative Path", "Source Path", "Date Copied to Folder 1", "Exists in Folder 1",
      "Exists in Folder 2">>

max_column == Len(main_columns)

\* iter_rows: the cells of a data row of the first sheet, each by the text of its
\* value (a date is a text that is no status)
main_sheet_row(r) ==
    <<r.relative_path,
      "source path",
      IF r.date_copied.kind = "blank" THEN "None" ELSE "date",
      IF r.exists1 THEN "True" ELSE "False",
      IF r.exists2 THEN "True" ELSE "False">>

\* line 163: row[main_sheet.max_column - 3], the tuple counted from 0
status_cell(row) == row[(max_column - 3) + 1]

\* lines 162-166: the rows that get the red fill
red_fill(main) ==
    [i \in 1..Len(main) |->
        status_cell(main_sheet_row(main[i]))
            \in {"Missing in Folder 1", "Missing in Folder 2", "Size Mismatch",
                 "Checksum Mismatch"}]

Returned ==
    [copied |-> copied_files, verified |-> verified_files,
     mismatched |-> mismatched_files, missing |-> missing_files,
     errors |-> error_log_entries, force |-> force_recopy, timestamp |-> timestamp,
     total |-> total_files, faults |-> run.faults, outside |-> run.outside,
     found_report |-> run.found_report]

\* lines 151-172: the audit sheet is added to the workbook just written and the
\* problem rows are filled, or that raised (the workbook could not be opened or saved
\* again) and an entry is logged instead; the run returns
Audit ==
    /\ pc = "audit"
    /\ \E appended \in BOOLEAN :
        /\ ~appended => budget.faults > 0
        /\ report' = IF appended
                     THEN [report EXCEPT
                              !.audits = Append(@, AuditSheet(timestamp, audit_records)),
                              !.fills = red_fill(report.main),
                              !.mtime = saves + 1]
                     ELSE report
        /\ saves' = IF appended THEN saves + 1 ELSE saves
        /\ written' = IF appended
                      THEN Append(written, AuditSheet(timestamp, audit_records))
                      ELSE written
        /\ error_log_entries' =
              IF appended THEN error_log_entries
              ELSE Append(error_log_entries,
                          [at |-> clock, text |-> "Failed to append audit sheet",
                           path |-> ""])
        /\ budget' = [budget EXCEPT !.faults = IF appended THEN @ ELSE @ - 1]
        /\ run' = [run EXCEPT !.outside = FALSE,
                              !.faults = IF appended THEN @ ELSE @ + 1,
                              !.appended = appended]
        /\ LET returned == [Returned EXCEPT !.errors = error_log_entries',
                                            !.faults = run'.faults]
           IN history' = IF Len(history) = 2 THEN <<history[2], returned>>
                         ELSE Append(history, returned)
    /\ pc' = "idle"
    /\ UNCHANGED <<paths, disk, backups, clock, force_recopy_var, timestamp, force_recopy,
                   df, index, total_files, copied_files, verified_files,
                   mismatched_files, missing_files, audit_records, last, progress_bar>>

\* sync_and_verify called and returning, the window left aside
Call == Begin /\ UNCHANGED gui

Return == Audit /\ UNCHANGED gui

Next ==
    \/ Outside
    \/ ToggleForce
    \/ Call
    \/ backup_excel
    \/ Load
    \/ Iterate
    \/ Save
    \/ Return

Spec == Init /\ [][Next]_vars

\* Three paths, all three files in the external tree, the checkbox unticked.
InitScenario ==
    /\ Start(RelPaths, [p \in RelPaths |-> FileS], MaxRuns)
    /\ force_recopy_var = FALSE

SpecScenario == InitScenario /\ [][Next]_vars

\* One file and many runs on the same report, no outside change to the trees.
InitRotation ==
    /\ Start({"a"}, [p \in RelPaths |-> IF p = "a" THEN FileS ELSE NoFile],
             MaxRotationRuns)
    /\ force_recopy_var = FALSE

NextRotation ==
    \/ Call
    \/ backup_excel
    \/ Load
    \/ Iterate
    \/ Save
    \/ Return

SpecRotation == InitRotation /\ [][NextRotation]_vars

\* The report is deleted or moved away between two runs; its backups stay.
ReportRemoved ==
    /\ pc = "idle"
    /\ budget.outside > 0
    /\ budget.runs > 0
    /\ report.exists
    /\ report' = NoReport
    /\ budget' = [budget EXCEPT !.outside = @ - 1]
    /\ UNCHANGED <<paths, disk, backups, clock, saves, force_recopy_var, pc, locals, last,
                   run, history, written, progress_bar, gui>>

NextBackup ==
    \/ ReportRemoved
    \/ Call
    \/ backup_excel
    \/ Load
    \/ Iterate
    \/ Save
    \/ Return

SpecBackup == InitRotation /\ [][NextBackup]_vars

\* The steps of a run once it has been called.
RunStep ==
    \/ backup_excel
    \/ Load
    \/ Iterate
    \/ Save
    \/ Return

\* Runs one after the other in the world of Init, nothing else happening; the worker
\* thread is scheduled as long as it has a step to take.
SpecFair == Init /\ [][NextRotation]_vars /\ WF_vars(RunStep)


\* ------------------------------------------------------------------ the window
\* lines 217-225: a folder is picked with "Browse"
browse_folder1 ==
    /\ folder1_var' = "folder1"
    /\ UNCHANGED <<paths, disk, report, backups, clock, saves, force_recopy_var, pc, locals,
                   run_button, folder2_var, progress_bar, workers, budget, last, run,
                   history, written>>

browse_folder2 ==
    /\ folder2_var' = "folder2"
    /\ UNCHANGED <<paths, disk, report, backups, clock, saves, force_recopy_var, pc, locals,
                   run_button, folder1_var, progress_bar, workers, budget, last, run,
                   history, written>>

clickable_always(state) == TRUE

\* line 248: the button calls its command when clicked, unless its state is the
\* "disabled" line 175 gives it
clickable(state) == state # "disabled"

\* lines 175-177 and 215: a click on the run button, in the main loop's thread
run_sync_thread ==
    /\ budget.clicks > 0
    /\ clickable(run_button)
    /\ run_button' = "disabled"
    /\ progress_bar' = [progress_bar EXCEPT !.value = 0]
    /\ workers' = Append(workers, "task")
    /\ budget' = [budget EXCEPT !.clicks = @ - 1]
    /\ UNCHANGED <<paths, disk, report, backups, clock, saves, force_recopy_var, pc, locals,
                   folder1_var, folder2_var, last, run, history, written>>

\* A click on the disabled button: nothing is called.
ClickIgnored ==
    /\ budget.clicks > 0
    /\ ~clickable(run_button)
    /\ budget' = [budget EXCEPT !.clicks = @ - 1]
    /\ UNCHANGED <<paths, disk, report, backups, clock, saves, force_recopy_var, pc, locals,
                   progress_bar, gui, last, run, history, written>>

\* lines 187-195: the worker thread reads the folders; without both it shows the
\* error, enables the button and returns, otherwise it goes on to call sync_and_verify
task(t) ==
    /\ workers[t] = "task"
    /\ IF folder1_var = "" \/ folder2_var = ""
       THEN /\ run_button' = "normal"
            /\ workers' = [workers EXCEPT ![t] = "ended"]
       ELSE /\ workers' = [workers EXCEPT ![t] = "call"]
            /\ UNCHANGED run_button
    /\ UNCHANGED <<paths, disk, report, backups, clock, saves, force_recopy_var, pc, locals,
                   folder1_var, folder2_var, progress_bar, budget, last, run, history,
                   written>>

\* line 196: the worker thread enters sync_and_verify
sync_enter(t) ==
    /\ workers[t] = "call"
    /\ Begin
    /\ workers' = [workers EXCEPT ![t] = "sync"]
    /\ UNCHANGED <<run_button, folder1_var, folder2_var>>

\* line 196: sync_and_verify returns to the worker thread
sync_return(t) ==
    /\ workers[t] = "sync"
    /\ Audit
    /\ workers' = [workers EXCEPT ![t] = "summary"]
    /\ UNCHANGED <<run_button, folder1_var, folder2_var>>

\* lines 52, 63, 149: copying the report to its backup, reading the report or writing
\* it raises (the file is locked, unreadable, or is no workbook); nothing catches it in
\* sync_and_verify or in task, and the worker thread ends there
sync_raises(t) ==
    /\ workers[t] = "sync"
    /\ budget.faults > 0
    /\ \/ pc = "backup" /\ report.exists
       \/ pc = "load" /\ report.exists
       \/ pc = "loop" /\ index > Len(df)
    /\ pc' = "idle"
    /\ workers' = [workers EXCEPT ![t] = "aborted"]
    /\ budget' = [budget EXCEPT !.faults = @ - 1]
    /\ run' = [run EXCEPT !.faults = @ + 1]
    /\ UNCHANGED <<paths, disk, report, backups, clock, saves, force_recopy_var, locals,
                   run_button, folder1_var, folder2_var, progress_bar, last, history,
                   written>>

\* lines 200-213: the summary is shown and the button enabled
summary(t) ==
    /\ workers[t] = "summary"
    /\ run_button' = "normal"
    /\ workers' = [workers EXCEPT ![t] = "ended"]
    /\ UNCHANGED <<paths, disk, report, backups, clock, saves, force_recopy_var, pc, locals,
                   folder1_var, folder2_var, progress_bar, budget, last, run, history,
                   written>>

\* The program has just been started: no folder is picked; the external tree holds one
\* file.
InitGui ==
    /\ paths = {"a"}
    /\ disk = [folder1 |-> EmptyTree,
               folder2 |-> [p \in RelPaths |-> IF p = "a" THEN FileS ELSE NoFile]]
    /\ report = NoReport
    /\ backups = {}
    /\ clock = 0
    /\ saves = 0
    /\ pc = "idle"
    /\ budget = [runs |-> MaxClicks, outside |-> 0, faults |-> MaxFaults,
                 clicks |-> MaxClicks]
    /\ run_button = "normal"
    /\ folder1_var = ""
    /\ folder2_var = ""
    /\ force_recopy_var = FALSE
    /\ progress_bar = [maximum |-> 100, value |-> 0]
    /\ workers = <<>>
    /\ InitLocals
    /\ InitObservations

NextGui ==
    \/ browse_folder1
    \/ browse_folder2
    \/ run_sync_thread
    \/ ClickIgnored
    \/ \E t \in 1..Len(workers) : task(t)
    \/ \E t \in 1..Len(workers) : sync_enter(t)
    \/ backup_excel
    \/ Load
    \/ Iterate
    \/ Save
    \/ \E t \in 1..Len(workers) : sync_return(t)
    \/ \E t \in 1..Len(workers) : sync_raises(t)
    \/ \E t \in 1..Len(workers) : summary(t)

SpecGui == InitGui /\ [][NextGui]_vars


\* ====================================================================== claims


\* C1. The audit trail is append-only: once k runs with pairwise distinct timestamps
\* have completed, the report holds k audit sections, every section a run wrote
\* being still there, unchanged.
C1_AppendOnly ==
    (/\ pc = "idle"
     /\ \A i, j \in 1..Len(written) : i # j => written[i].name # written[j].name)
    => /\ Len(report.audits) = Len(written)
       /\ \A i \in 1..Len(written) : written[i] \in Range(report.audits)

\* C2. A record whose external file does not exist when it is processed gets the
\* status "Missing in Folder 2", adds exactly 1 to the missing counter, and no copy
\* is attempted for it.
C2_MissingInExternal ==
    (last.valid /\ ~last.source_before.exists)
    => /\ last.out.status = "Missing in Folder 2"
       /\ last.out.missing = 1
       /\ last.out.copy = "none"

\* C3 as stated. Processing one record increments at most one of the copied,
\* verified and mismatched counters.
C3_CountersExclusive ==
    last.valid => last.out.copied + last.out.verified + last.out.mismatched <= 1

\* C3 as amended. Processing one record increments at most one of the verified and
\* mismatched counters, and the copied counter by at most 1; a record copied in this
\* run may count as verified (or mismatched) as well.
C3_VerifiedOrMismatched ==
    last.valid
    => /\ last.out.verified + last.out.mismatched <= 1
       /\ last.out.copied <= 1
       /\ last.out.verified \in {0, 1} /\ last.out.mismatched \in {0, 1}
       /\ last.out.copied \in {0, 1}

\* C3, its case: a record was copied and counted as verified in the same iteration.
C3_Witness ==
    last.valid /\ last.out.copied = 1 /\ last.out.verified = 1

\* C4. A run without I/O failure over the three-record inventory (identical and
\* copied earlier; external only and never copied; internal only) reports Verified,
\* Copied and "Missing in Folder 2" and returns copied=1, verified=1, mismatched=0,
\* missing=1.
C4_Scenario ==
    (/\ pc = "idle"
     /\ run.n > 0
     /\ run.scenario # <<>>
     /\ run.faults = 0)
    => /\ audit_records[run.scenario[1]].Status = "Verified"
       /\ audit_records[run.scenario[2]].Status = "Copied"
       /\ audit_records[run.scenario[3]].Status = "Missing in Folder 2"
       /\ copied_files = 1
       /\ verified_files = 1
       /\ mismatched_files = 0
       /\ missing_files = 1


\* C4, its case: such a run has completed.
C4_Reached ==
    pc = "idle" /\ run.n > 0 /\ run.scenario # <<>> /\ run.faults = 0

\* C5 as stated. When a persisted report exists, the loaded inventory holds a record
\* for every file of the external tree, those added since the first run included.
C5_NewFilesAppended ==
    (pc \in {"loop", "audit"} /\ run.found_report)
    => \A p \in RelPaths :
          disk.folder2[p].exists => \E i \in 1..Len(df) : df[i].relative_path = p

\* C5 as amended. When a persisted report exists, the run loads the inventory from it
\* with the row order preserved and appends no record: through every later run the
\* inventory, in memory and as saved, lists exactly the relative paths of the first
\* run's scan, in that order, and only those records are processed.
C5_InventoryFixedAtBootstrap ==
    /\ (pc \in {"loop", "audit"} => RelativePaths(df) = run.bootstrapped)
    /\ (report.exists => RelativePaths(report.main) = run.bootstrapped)
    /\ (pc = "loop" /\ index = 1 /\ run.found_report
            => /\ Len(df) = Len(report.main)
               /\ \A i \in 1..Len(df) :
                    /\ df[i].relative_path = report.main[i].relative_path
                    /\ df[i].source_path = report.main[i].source_path
                    /\ isna(df[i].date_copied) = (report.main[i].date_copied = Blank))
    /\ (last.valid => last.before.relative_path \in Range(run.bootstrapped))

\* C5, its case: a later run has completed while the external tree holds a file that
\* the first run's scan did not list; the file has not been copied.
C5_Witness ==
    /\ pc = "idle"
    /\ run.n >= 2
    /\ run.found_report
    /\ \E p \in RelPaths :
          /\ disk.folder2[p].exists
          /\ p \notin Range(run.bootstrapped)
          /\ ~disk.folder1[p].exists

\* C6 as stated. A failed copy is terminal for the record: the status is the copy
\* error, one error-log entry is added, no counter changes, date_copied stays unset
\* and neither sizes nor checksums are compared.
C6_CopyFailureTerminal ==
    (last.valid /\ last.out.copy = "failed")
    => /\ last.out.status \in {CopyError(io) : io \in CopyFaults}
       /\ Len(last.out.log) = 1
       /\ last.out.copied = 0 /\ last.out.verified = 0
       /\ last.out.mismatched = 0 /\ last.out.missing = 0
       /\ isna(last.out.row.date_copied)
       /\ last.out.size_calls = 0 /\ last.out.hash_calls = 0

DestAfter(it) == ReadFile(it.out.disk, join("folder1", it.before.relative_path))

\* C6 as amended. A failed copy adds one error-log entry, leaves the copied and
\* missing counters and the unset date_copied alone; when no destination file exists
\* after it, the status is the copy error, no counter changes and nothing is
\* compared. (A destination that exists is compared as usual.)
C6_CopyFailureWithoutDestination ==
    (last.valid /\ last.out.copy = "failed")
    => /\ Len(last.out.log) = 1
       /\ last.out.log[1].text \in {CopyError(io) : io \in CopyFaults}
       /\ last.out.copied = 0 /\ last.out.missing = 0
       /\ isna(last.out.row.date_copied)
       /\ (~DestAfter(last).exists
            => /\ last.out.status = last.out.log[1].text
               /\ last.out.verified = 0 /\ last.out.mismatched = 0
               /\ last.out.size_calls = 0 /\ last.out.hash_calls = 0)

\* C6, its case: a copy has failed and left no destination file.
C6_Witness ==
    last.valid /\ last.out.copy = "failed" /\ ~DestAfter(last).exists


\* C7. Idempotence of the counters: of two successive runs with the same force_recopy
\* flag, no outside change to the trees between them and no I/O failure in either,
\* the second returns copied = 0 and the verified, mismatched and missing counts of
\* the first.
C7_Idempotent ==
    (/\ pc = "idle"
     /\ Len(history) = 2
     /\ ~history[2].outside
     /\ history[1].force = history[2].force
     /\ history[1].faults = 0 /\ history[2].faults = 0)
    => /\ history[2].copied = 0
       /\ history[2].verified = history[1].verified
       /\ history[2].mismatched = history[1].mismatched
       /\ history[2].missing = history[1].missing

\* C7, its case: the first of two such runs copied files, the second verified them.
C7_Witness ==
    /\ pc = "idle"
    /\ Len(history) = 2
    /\ ~history[2].outside
    /\ history[1].force = history[2].force
    /\ history[1].faults = 0 /\ history[2].faults = 0
    /\ history[1].copied = 2
    /\ history[2].verified = 2

BackupNames == {b.name : b \in backups}

\* C8 as stated. After more than keep_last runs exactly keep_last backups remain, and
\* after a backup step there are never more than keep_last.
C8_RotationBound ==
    /\ (pc = "idle" /\ run.n > keep_last => Cardinality(backups) = keep_last)
    /\ (pc # "backup" => Cardinality(backups) <= keep_last)

\* C8 as amended. As long as every deletion of an old backup succeeds there are never
\* more than keep_last backups; and after N > keep_last runs started in pairwise
\* different seconds (the first of them creating the report) exactly keep_last
\* remain: the backups taken by the keep_last latest runs, which are the ones with
\* the latest modification times.
C8_RotationKeepsNewest ==
    run.undeleted = 0
    => /\ Cardinality(backups) <= keep_last
       /\ (pc = "idle" /\ run.n > keep_last /\ clock = run.n
            => /\ Cardinality(backups) = keep_last
               /\ BackupNames = (run.n - keep_last + 1)..run.n
               /\ \A b, c \in backups : b.name < c.name => b.mtime < c.mtime)

\* C8, its case: a ninth run in nine different seconds has deleted the oldest backup.
C8_Witness ==
    /\ pc = "idle"
    /\ run.undeleted = 0
    /\ run.n > keep_last + 1
    /\ clock = run.n
    /\ run.old_backups = 1
    /\ Cardinality(backups) = keep_last

Differ(it) ==
    /\ it.source_before.exists
    /\ it.dest_before.exists
    /\ it.dest_before # it.source_before

\* C9. A record already copied whose destination exists with a content other than the
\* external file's is reported "Size Mismatch" (lengths differ) or "Checksum
\* Mismatch" (same length), counts once as mismatched, and keeps its destination file
\* and its date_copied, with force_recopy set or not; a copy is attempted only with
\* date_copied unset when the loop tests it (never set, or cleared by force_recopy for
\* a missing destination).
C9_NoRecopy ==
    last.valid
    => /\ (~isna(last.before.date_copied) /\ Differ(last)
            => /\ last.out.status = IF last.dest_before.size # last.source_before.size
                                    THEN "Size Mismatch" ELSE "Checksum Mismatch"
               /\ last.out.mismatched = 1
               /\ last.out.copied = 0 /\ last.out.verified = 0
               /\ last.out.copy = "none"
               /\ DestAfter(last) = last.dest_before
               /\ last.out.row.date_copied = last.before.date_copied)
       /\ (last.out.copy # "none"
            => \/ isna(last.before.date_copied)
               \/ last.force /\ ~last.dest_before.exists)

\* C9, its case: with force_recopy set, a tampered destination of the same length has
\* been reported.
C9_Witness ==
    /\ last.valid
    /\ ~isna(last.before.date_copied)
    /\ Differ(last)
    /\ last.force
    /\ last.dest_before.size = last.source_before.size

\* C10 as stated. A record whose internal file exists with a length other than its
\* external file's ends as "Size Mismatch" and no checksum is computed for it.
C10_SizeShortCircuit ==
    (/\ last.valid
     /\ last.source_before.exists
     /\ last.dest_before.exists
     /\ last.dest_before.size # last.source_before.size)
    => /\ last.out.status = "Size Mismatch"
       /\ last.out.hash_calls = 0

\* C10 as amended. The same, for a record whose date_copied is set (no copy replaces
\* the internal file before the sizes are compared); it counts once as mismatched.
C10_SizeShortCircuitWhenCopied ==
    (/\ last.valid
     /\ ~isna(last.before.date_copied)
     /\ last.source_before.exists
     /\ last.dest_before.exists
     /\ last.dest_before.size # last.source_before.size)
    => /\ last.out.status = "Size Mismatch"
       /\ last.out.hash_calls = 0
       /\ last.out.size_calls = 2
       /\ last.out.mismatched = 1

\* C10, its case: an already copied record with an internal file of another length
\* has been processed.
C10_Witness ==
    /\ last.valid
    /\ ~isna(last.before.date_copied)
    /\ last.source_before.exists
    /\ last.dest_before.exists
    /\ last.dest_before.size # last.source_before.size

Running == {t \in 1..Len(workers) : workers[t] \in {"call", "sync"}}

Alive == {t \in 1..Len(workers) : workers[t] \in {"task", "call", "sync", "summary"}}

\* C11. However the clicks on the run button and the steps of the worker threads
\* interleave, at most one execution of sync_and_verify is in progress, and the button
\* is disabled from the click that starts a run until that run has finished: at most
\* one worker thread is alive, and while one is the button is disabled.
C11_MutualExclusion ==
    /\ Cardinality(Running) <= 1
    /\ Cardinality(Alive) <= 1
    /\ (Alive # {} => run_button = "disabled")
    /\ (pc # "idle" => \E t \in Running : workers[t] = "sync")

\* C11, its case: after a first run has ended a second one is in its loop, and a click
\* made meanwhile on the disabled button has started nothing.
C11_Witness ==
    /\ pc = "loop"
    /\ \E t \in Running : workers[t] = "sync"
    /\ \E u \in 1..Len(workers) : workers[u] = "ended" /\ run.n = 2
    /\ Len(workers) + budget.clicks < MaxClicks

\* C12. The error log a run returns holds exactly one entry for each per-file failure
\* of the run (external file missing, copy failed, checksum unreadable) and none for
\* a record without failure.
C12_ErrorLogAccounting ==
    /\ (last.valid => Len(last.out.log) = Failures(last.out))
    /\ (pc = "idle" /\ run.n > 0
            => Cardinality({i \in 1..Len(error_log_entries) : error_log_entries[i].path # ""})
                  = run.failures)

Prefix(k, total) == [i \in 1..k |-> [maximum |-> total, value |-> i]]

\* C13. In a run over total records the progress callback is invoked once after each
\* record, whatever the record's outcome, the k-th time with (k, total): after k
\* iterations it has been invoked k times, after the loop total times.
C13_ProgressCallback ==
    /\ (pc = "loop" => /\ total_files = Len(df)
                       /\ run.progress = Prefix(index - 1, total_files))
    /\ (pc = "audit" \/ (pc = "idle" /\ run.n > 0)
            => /\ total_files = Len(df)
               /\ run.progress = Prefix(total_files, total_files)
               /\ (total_files > 0
                      => progress_bar = [maximum |-> total_files, value |-> total_files]))

\* C13, its case: a run over two records has ended, one of them missing in the
\* external tree, with an I/O failure on a record.
C13_Witness ==
    /\ pc = "idle"
    /\ Len(run.progress) = 2
    /\ run.faults > 0
    /\ missing_files > 0

\* The audit records are one per inventory record processed, in inventory order: the
\* i-th carries the i-th record's relative path and the run's timestamp; the audit
\* sheet written holds them.
AuditComplete ==
    /\ (pc = "loop"
            => /\ index \in 1..(Len(df) + 1)
               /\ Len(audit_records) = index - 1)
    /\ (pc = "audit" \/ (pc = "idle" /\ run.n > 0)
            => Len(audit_records) = Len(df))
    /\ (pc \in {"loop", "audit"} \/ (pc = "idle" /\ run.n > 0)
            => \A i \in 1..Len(audit_records) :
                  /\ audit_records[i].RelativePath = df[i].relative_path
                  /\ audit_records[i].Timestamp = timestamp)
    /\ (pc \in {"loop", "audit"} /\ run.found_report
            => RelativePaths(df) = RelativePaths(run.report_before.main))
    /\ (pc = "idle" /\ run.n > 0 /\ run.appended
            => report.audits[Len(report.audits)] = [name |-> timestamp, rows |-> audit_records])

\* C14. Whatever per-file copy or checksum failures occur, a run that has started
\* reaches its end, and at every moment the audit records are one per inventory
\* record processed, in inventory order, none skipped, doubled or out of place.
C14_CompleteOrderedAudit ==
    /\ []AuditComplete
    /\ (pc # "idle") ~> (pc = "idle")

\* C14, its case: a run over two records has ended after a copy or checksum failure
\* on a record.
C14_Witness ==
    /\ pc = "idle"
    /\ Len(audit_records) = 2
    /\ last.valid /\ last.n = run.n /\ last.out.fault
    /\ run.appended

\* C15. When the report exists at the start of a run, the backup the run takes, named
\* by the run's timestamp, is the report as it stood before the run loaded or wrote
\* anything (content, audit sheets, fills, modification time), and stays so through
\* the run; when the report does not exist, the backups are left exactly as they were.
C15_BackupPrecedesMutation ==
    /\ (pc = "backup" => report = run.report_before /\ backups = run.backups_before)
    /\ (pc # "backup" /\ run.n > 0
            => IF run.found_report
               THEN \E b \in backups :
                        /\ b.name = timestamp
                        /\ b.main = run.report_before.main
                        /\ b.fills = run.report_before.fills
                        /\ b.audits = run.report_before.audits
                        /\ b.mtime = run.report_before.mtime
               ELSE backups = run.backups_before)

\* C15, its case: the fourth run in four different seconds has taken its backup, the
\* second backup there is: the third run found the report removed, took no backup and
\* left the one of the second run.
C15_Witness ==
    /\ pc = "load"
    /\ run.found_report
    /\ run.n = 4
    /\ clock = 4
    /\ Cardinality(backups) = 2
    /\ run.report_before.audits # <<>>

\* C16. A record whose external file exists, whose destination is missing and whose
\* date_copied is set: with force_recopy (and no I/O failure) the iteration clears the
\* date, copies the file, sets the date again and reports "Copied", copied + 1;
\* without force_recopy it copies nothing, leaves the date and the disk alone and
\* reports "Already Copied", no counter changing.
C16_ForceRecopySamePass ==
    (/\ last.valid
     /\ last.source_before.exists
     /\ ~last.dest_before.exists
     /\ ~isna(last.before.date_copied))
    => IF last.force
       THEN /\ isna(last.out.date_at_copy)
            /\ last.out.copy # "none"
            /\ ~last.out.fault
                  => /\ last.out.copy = "ok"
                     /\ DestAfter(last) = last.source_before
                     /\ ~isna(last.out.row.date_copied)
                     /\ last.out.status = "Copied"
                     /\ last.out.copied = 1
       ELSE /\ last.out.copy = "none"
            /\ last.out.disk = last.disk_before
            /\ last.out.row.date_copied = last.before.date_copied
            /\ last.out.status = "Already Copied"
            /\ last.out.copied = 0 /\ last.out.verified = 0
            /\ last.out.mismatched = 0 /\ last.out.missing = 0

\* C16, its case: with force_recopy set, such a record has been copied again.
C16_Witness ==
    /\ last.valid
    /\ last.source_before.exists
    /\ ~last.dest_before.exists
    /\ ~isna(last.before.date_copied)
    /\ last.force
    /\ last.out.copy = "ok"

\* C17. After a run, a data row of the report's first sheet carries the red fill if
\* and only if its record ended the run as "Missing in Folder 1", "Missing in
\* Folder 2", "Size Mismatch" or "Checksum Mismatch".
C17_ProblemRowsFlagged ==
    (pc = "idle" /\ run.n > 0 /\ run.appended)
    => /\ Len(report.fills) = Len(audit_records)
       /\ \A i \in 1..Len(audit_records) :
            report.fills[i]
                = (audit_records[i].Status
                      \in {"Missing in Folder 1", "Missing in Folder 2",
                           "Size Mismatch", "Checksum Mismatch"})

\* C18. A run never adds, removes or reorders the records of a loaded inventory and
\* never changes a relative_path or source_path: the frame in memory and the sheet
\* saved list the paths of the report loaded, in its order; and the one file an
\* iteration probes and writes is folder1 joined with the record's relative_path,
\* every other file of both trees staying as it was.
C18_InventoryFrame ==
    /\ (last.valid
            => /\ last.out.row.relative_path = last.before.relative_path
               /\ last.out.row.source_path = last.before.source_path
               /\ last.out.dest_path = <<"folder1", last.before.relative_path>>
               /\ last.out.exists1
                     = last.disk_before.folder1[last.before.relative_path].exists
               /\ \A folder \in {"folder1", "folder2"}, p \in RelPaths :
                     <<folder, p>> # <<"folder1", last.before.relative_path>>
                        => last.out.disk[folder][p] = last.disk_before[folder][p])
    /\ ((pc \in {"loop", "audit"} \/ (pc = "idle" /\ run.n > 0)) /\ run.found_report
            => /\ Len(df) = Len(run.report_before.main)
               /\ \A i \in 1..Len(df) :
                    /\ df[i].relative_path = run.report_before.main[i].relative_path
                    /\ df[i].source_path = run.report_before.main[i].source_path)
    /\ ((pc = "audit" \/ (pc = "idle" /\ run.n > 0)) /\ report.exists
            => /\ Len(report.main) = Len(df)
               /\ \A i \in 1..Len(df) :
                    /\ report.main[i].relative_path = df[i].relative_path
                    /\ report.main[i].source_path = df[i].source_path)

\* C18, its case: a run on a loaded inventory of two records has copied the second.
C18_Witness ==
    /\ last.valid
    /\ run.found_report
    /\ last.n = run.n
    /\ Len(df) = 2
    /\ last.before.relative_path = df[2].relative_path
    /\ last.out.copy = "ok"

\* C19. Every run started from the button ends with the button enabled again, be it
\* completed, rejected for a folder not picked, or aborted by a failure to read or
\* write the report: once no worker thread is alive (only a worker enables the
\* button), the button is enabled.
C19_TriggerReenabled ==
    Alive = {} => run_button = "normal"

SavedFlags(i) == report.main[i]

DestOf(i) == <<"folder1", report.main[i].relative_path>>

\* C20 as stated. When the run has saved the inventory, each saved record's flags say
\* whether its destination and its source exist then; a record copied in this run is
\* saved with "Exists in Folder 1" true.
C20_FlagsTruthful ==
    pc = "audit"
    => \A i \in 1..Len(report.main) :
          /\ SavedFlags(i).exists1 = ReadFile(disk, DestOf(i)).exists
          /\ SavedFlags(i).exists2 = ReadFile(disk, report.main[i].source_path).exists

\* C20 as amended. Each saved record's "Exists in Folder 2" says whether its source
\* exists; its "Exists in Folder 1" says whether its destination existed when the
\* record was reached, before any copy: a destination the run has created is saved as
\* FALSE, and a flag saved as TRUE is true at the end of the run.
C20_FlagsProbedBeforeCopy ==
    /\ (last.valid
            => /\ last.out.row.exists1 = last.dest_before.exists
               /\ last.out.row.exists2 = last.source_before.exists)
    /\ (pc = "audit"
            => \A i \in 1..Len(report.main) :
                  /\ SavedFlags(i).exists2
                        = ReadFile(disk, report.main[i].source_path).exists
                  /\ SavedFlags(i).exists1 = ReadFile(run.disk_before, DestOf(i)).exists
                  /\ SavedFlags(i).exists1 => ReadFile(disk, DestOf(i)).exists)

\* C20, its case: the inventory has been saved with a record copied in this run, whose
\* destination exists and whose flag says it does not.
C20_Witness ==
    /\ pc = "audit"
    /\ \E i \in 1..Len(report.main) :
          /\ audit_records[i].Status = "Copied"
          /\ ReadFile(disk, DestOf(i)).exists
          /\ ~SavedFlags(i).exists1

====
